---- MODULE Spec2Model ----
(***************************************************************************)
(* Model of the plugs of telegram-gpt: the Settings and Prompt entities    *)
(* (structures.py), the Validators (validators.py), the PropertyPlug       *)
(* managers with their persistence files and the model listing of the      *)
(* GPTPlug (plugs.py).                                                     *)
(*                                                                         *)
(* phase, configuration and file are the attributes of the PropertyPlug    *)
(* under study; gptplug_models is the attribute models of the GPTPlug,     *)
(* the cache of the last listing, which the specifications of the two      *)
(* managers leave alone.  promptplug and handlers belong to the            *)
(* specification of the whole bot: the PromptPlug next to the SettingsPlug *)
(* and the command handlers of telegram.py, one for each chat session.     *)
(*                                                                         *)
(* Python values are tagged records.  Numbers are fixed-point integers in  *)
(* thousandths (1.0 is 1000), so that round(x, 2) is a real conversion.    *)
(***************************************************************************)
EXTENDS Integers, Sequences, FiniteSets, TLC

VARIABLES phase, configuration, file, disk, last, gptplug_models,
          promptplug, handlers

vars ==
    <<phase, configuration, file, disk, last, gptplug_models, promptplug,
      handlers>>

----------------------------------------------------------------------------
(* Bounds of the model. *)

\* most identifiers in the list of known models
MaxModels == 2

\* most records in the data list of a provider's answer
MaxItems == 2

\* the reading of the clock, time.time(), in thousandths of a second
Now == 1700000

----------------------------------------------------------------------------
(* Python values. *)

StrV(s) == [t |-> "str", s |-> s, n |-> 0]
NumV(n) == [t |-> "num", s |-> "", n |-> n]
NaNV == [t |-> "nan", s |-> "", n |-> 0]
NoneV == [t |-> "none", s |-> "", n |-> 0]
\* placeholder of an attribute that does not exist yet
Absent == [t |-> "absent", s |-> "", n |-> 0]

\* the attribute models of the GPTPlug while no listing has assigned it
ModelsUnset == [set |-> FALSE, list |-> <<>>]

\* the PromptPlug and the command handlers of the bot, in the
\* specifications that follow one plug on its own
PlugUnstudied == [configuration |-> <<>>, file |-> <<>>]
NoHandlers == <<>>

\* constants.py
DEFAULT_MODEL == "llama-3.3-70b-versatile"

\* float(str) for the strings of the model; a string outside the table
\* raises ValueError
NumericStrings ==
    [x \in {"0.504", "2.004"} |-> IF x = "0.504" THEN NumV(504) ELSE NumV(2004)]

\* outcome of the builtin float(value): "ok", "ValueError" or "TypeError"
FloatOutcome(value) ==
    CASE value.t = "num" -> "ok"
      [] value.t = "nan" -> "ok"
      [] value.t = "str" ->
            IF value.s \in DOMAIN NumericStrings THEN "ok" ELSE "ValueError"
      [] OTHER -> "TypeError"

\* float(value) where FloatOutcome(value) = "ok"
Float(value) ==
    IF value.t = "str" THEN NumericStrings[value.s] ELSE value

\* a rounding that drops the third decimal instead
Round2Truncates(x) ==
    IF x.t = "nan" THEN x ELSE NumV(10 * (x.n \div 10))

\* round(x, 2) of a float: to the nearest hundredth, a tie (which only a
\* binary-exact value such as 0.125 can be) going to the even one; nan stays
\* nan
Round2(x) ==
    IF x.t = "nan" THEN x
    ELSE LET q == x.n \div 10
             r == x.n % 10
         IN  IF r < 5 THEN NumV(10 * q)
             ELSE IF r > 5 THEN NumV(10 * (q + 1))
             ELSE IF q % 2 = 0 THEN NumV(10 * q) ELSE NumV(10 * (q + 1))

----------------------------------------------------------------------------
(* validators.py *)

validate_str(value) == value.t = "str"

\* validate_numeric catches ValueError only: a TypeError of float()
\* propagates to the caller
validate_numeric_raises(value) == FloatOutcome(value) = "TypeError"

validate_numeric(value) == FloatOutcome(value) = "ok"

\* a comparison that leaves the two margins out
ExclusiveRange(bottom_margin, top_margin, x) ==
    /\ x.t = "num"
    /\ bottom_margin < x.n
    /\ x.n < top_margin

InclusiveRange(bottom_margin, top_margin, x) ==
    /\ x.t = "num"
    /\ bottom_margin <= x.n
    /\ x.n <= top_margin

validate_range(margins, value) ==
    IF validate_numeric(value)
    THEN InclusiveRange(margins[1], margins[2], Float(value))
    ELSE FALSE

----------------------------------------------------------------------------
(* structures.py: the Settings entity. *)

SettingsFields ==
    {"model", "temperature", "frequency_penalty", "presence_penalty", "top_p"}

\* Settings(model): the dataclass defaults
SettingsOf(model) ==
    [model |-> model,
     temperature |-> NumV(1000),
     frequency_penalty |-> NumV(0),
     presence_penalty |-> NumV(0),
     top_p |-> NumV(1000)]

\* a map with no key
EmptyMap == [x \in {} |-> NoneV]

\* dict assignment d[k] = v
Put(d, k, v) == [x \in DOMAIN d \cup {k} |-> IF x = k THEN v ELSE d[x]]

\* _validate_range handing back the rejected value instead of the default
SettingsValidateRangeKeepsValue(margins, value, default) ==
    IF ~validate_range(margins, value)
    THEN <<FALSE, value>>
    ELSE <<TRUE, value>>

\* Settings._validate_range: (status, result); the value is numeric here
SettingsValidateRange(margins, value, default) ==
    IF ~validate_range(margins, value)
    THEN <<FALSE, default>>
    ELSE <<TRUE, value>>

\* an assignment that, on a rejected value, starts the entity afresh
validate_and_assign_afresh(cfg, value, attr, bounds, default) ==
    LET checked == SettingsValidateRange(bounds, value, default)
    IN  [cfg |-> IF checked[1] THEN [cfg EXCEPT ![attr] = checked[2]]
                 ELSE SettingsOf(cfg.model),
         status |-> checked[1]]

\* Settings._validate_and_assign: setattr(self, attr, result) whatever the
\* status
validate_and_assign(cfg, value, attr, bounds, default) ==
    LET checked == SettingsValidateRange(bounds, value, default)
    IN  [cfg |-> [cfg EXCEPT ![attr] = checked[2]], status |-> checked[1]]

\* the setters with _update_frequency assigning presence_penalty
UpdateMethodWrongField(attribute) ==
    CASE attribute = "temperature" ->
            [found |-> TRUE, attr |-> "temperature",
             bounds |-> <<0, 2000>>, default |-> NumV(1000)]
      [] attribute = "frequency" ->
            [found |-> TRUE, attr |-> "presence_penalty",
             bounds |-> <<-2000, 2000>>, default |-> NumV(0)]
      [] attribute = "presence" ->
            [found |-> TRUE, attr |-> "presence_penalty",
             bounds |-> <<-2000, 2000>>, default |-> NumV(0)]
      [] attribute = "top" ->
            [found |-> TRUE, attr |-> "top_p",
             bounds |-> <<0, 1000>>, default |-> NumV(1000)]
      [] OTHER ->
            [found |-> FALSE, attr |-> "",
             bounds |-> <<0, 0>>, default |-> NoneV]

\* getattr(self, f'_update_{attribute}', None): the four _update_* setters
\* with the field, bounds and default each one passes on
UpdateMethod(attribute) ==
    CASE attribute = "temperature" ->
            [found |-> TRUE, attr |-> "temperature",
             bounds |-> <<0, 2000>>, default |-> NumV(1000)]
      [] attribute = "frequency" ->
            [found |-> TRUE, attr |-> "frequency_penalty",
             bounds |-> <<-2000, 2000>>, default |-> NumV(0)]
      [] attribute = "presence" ->
            [found |-> TRUE, attr |-> "presence_penalty",
             bounds |-> <<-2000, 2000>>, default |-> NumV(0)]
      [] attribute = "top" ->
            [found |-> TRUE, attr |-> "top_p",
             bounds |-> <<0, 1000>>, default |-> NumV(1000)]
      [] OTHER ->
            [found |-> FALSE, attr |-> "",
             bounds |-> <<0, 0>>, default |-> NoneV]

\* Settings._update_model
update_model(cfg, value, onloading) ==
    IF ~validate_str(value)
    THEN [cfg |-> cfg, status |-> FALSE]
    ELSE IF onloading
         THEN [cfg |-> cfg, status |-> TRUE]
         ELSE [cfg |-> [cfg EXCEPT !.model = value], status |-> TRUE]

\* value in models, for a list of model identifiers
InModels(value, models) ==
    /\ value.t = "str"
    /\ \E i \in 1..Len(models) : models[i] = value.s

\* the model branch without the membership test
ModelAllowedAlways(models, value) == TRUE

\* the test of the model branch: not models or value in models
ModelAllowed(models, value) ==
    \/ models = <<>>
    \/ InModels(value, models)

\* kwargs.get('models', []) mapped to the identifiers
KnownModels(kw) == IF kw.models.given THEN kw.models.ids ELSE <<>>

\* one iteration of the loop of Settings.update over (attribute, value);
\* st is [cfg, response, raised]
UpdateStep(st, attribute, value, models) ==
    IF attribute # "model"
    THEN IF validate_numeric_raises(value)
         THEN [st EXCEPT !.raised = TRUE]
         ELSE IF validate_numeric(value)
              THEN LET rounded == Round2(Float(value))
                       method == UpdateMethod(attribute)
                   IN  IF method.found
                       THEN LET r == validate_and_assign(st.cfg, rounded,
                                        method.attr, method.bounds,
                                        method.default)
                            IN  [st EXCEPT
                                   !.cfg = r.cfg,
                                   !.response = Put(st.response, attribute,
                                       [ok |-> r.status, value |-> rounded])]
                       ELSE st
              ELSE [st EXCEPT
                      !.response = Put(st.response, attribute,
                                       [ok |-> FALSE, value |-> value])]
    ELSE IF ModelAllowed(models, value)
         THEN LET r == update_model(st.cfg, value, FALSE)
              IN  [st EXCEPT
                     !.cfg = r.cfg,
                     !.response = Put(st.response, "model",
                                      [ok |-> r.status, value |-> value])]
         ELSE [st EXCEPT
                 !.response = Put(st.response, "model",
                                  [ok |-> FALSE, value |-> value])]

RECURSIVE UpdateLoop(_, _, _)
\* the loop of Settings.update from the i-th keyword argument on; an
\* exception ends it with the fields assigned so far
UpdateLoop(st, kw, i) ==
    IF st.raised \/ i > Len(kw.args)
    THEN st
    ELSE UpdateLoop(UpdateStep(st, kw.args[i].name, kw.args[i].value,
                               KnownModels(kw)), kw, i + 1)

\* Settings.update(logger, **kwargs)
SettingsUpdate(cfg, kw) ==
    UpdateLoop([cfg |-> cfg, response |-> EmptyMap, raised |-> FALSE], kw, 1)

----------------------------------------------------------------------------
(* The persistence file of the Settings: absent, or a YAML text.  A text   *)
(* is modelled by what yaml.safe_load makes of it: "garbage" does not      *)
(* parse, "empty" parses to None, "scalar" parses to a value that is no    *)
(* mapping, "map" parses to a mapping from keys to YAML nodes.             *)

FileAbsent == [kind |-> "absent", doc |-> EmptyMap]
FileGarbage == [kind |-> "garbage", doc |-> EmptyMap]
FileEmpty == [kind |-> "empty", doc |-> EmptyMap]
FileScalar == [kind |-> "scalar", doc |-> EmptyMap]
FileMap(doc) == [kind |-> "map", doc |-> doc]

\* yaml.dump of one value: the node's tag and its content
YamlRepresent(value) ==
    CASE value.t = "str" -> [tag |-> "!!str", text |-> value.s, num |-> 0]
      [] value.t = "num" -> [tag |-> "!!float", text |-> "", num |-> value.n]
      [] value.t = "nan" -> [tag |-> "!!float", text |-> ".nan", num |-> 0]
      [] OTHER -> [tag |-> "!!null", text |-> "", num |-> 0]

\* yaml.safe_load of one node
YamlConstruct(node) ==
    CASE node.tag = "!!str" -> StrV(node.text)
      [] node.tag = "!!float" /\ node.text = ".nan" -> NaNV
      [] node.tag = "!!float" -> NumV(node.num)
      [] node.tag = "!!int" -> NumV(node.num)
      [] OTHER -> NoneV

\* yaml.dump(asdict(self)): every field of the dataclass is written
YamlDump(cfg) == FileMap([k \in SettingsFields |-> YamlRepresent(cfg[k])])

\* Settings.load: (successfull, configuration); an absent file, a text that
\* does not parse, a document that is no mapping, a mapping without model
\* and a mapping with a key that is no field all raise inside the try
SettingsLoad(f) ==
    IF /\ f.kind = "map"
       /\ "model" \in DOMAIN f.doc
       /\ DOMAIN f.doc \subseteq SettingsFields
    THEN [successfull |-> TRUE,
          configuration |->
              [k \in SettingsFields |->
                  IF k \in DOMAIN f.doc
                  THEN YamlConstruct(f.doc[k])
                  ELSE SettingsOf(NoneV)[k]]]
    ELSE [successfull |-> FALSE, configuration |-> SettingsOf(Absent)]

\* Settings.save: (ok, file afterwards) of one write of cfg over the file f.
\* On a disk that denies the write open() raises and the file stays as it
\* was; on a full disk the file is truncated by open() and the write raises
SettingsSave(cfg, f, d) ==
    CASE d = "ok" -> [ok |-> TRUE, file |-> YamlDump(cfg)]
      [] d = "denied" -> [ok |-> FALSE, file |-> f]
      [] OTHER -> [ok |-> FALSE, file |-> FileEmpty]

----------------------------------------------------------------------------
(* plugs.py: SettingsPlug, a PropertyPlug over Settings. *)

\* self.structure(self.default) of SettingsPlug
StructureDefault == SettingsOf(StrV(DEFAULT_MODEL))

\* load keeping what Settings.load handed back without the fallback
PlugLoadNoFallback(f) == SettingsLoad(f).configuration

\* PropertyPlug.load: the configuration the plug holds afterwards
PlugLoad(f) ==
    LET loaded == SettingsLoad(f)
    IN  IF loaded.successfull THEN loaded.configuration ELSE StructureDefault

\* update saving only when no field was rejected
PlugUpdateSavesIfAccepted(cfg, f, d, kw) ==
    LET r == SettingsUpdate(cfg, kw)
        w == SettingsSave(r.cfg, f, d)
        clean == \A n \in DOMAIN r.response : r.response[n].ok
    IN  IF r.raised
        THEN [cfg |-> r.cfg, file |-> f, response |-> EmptyMap,
              returned |-> FALSE, saved |-> "none"]
        ELSE IF clean
             THEN [cfg |-> r.cfg, file |-> w.file, response |-> r.response,
                   returned |-> TRUE,
                   saved |-> IF w.ok THEN "ok" ELSE "failed"]
             ELSE [cfg |-> r.cfg, file |-> f, response |-> r.response,
                   returned |-> TRUE, saved |-> "none"]

\* update letting the exception of a failed write through
PlugUpdateRaisesOnFailedWrite(cfg, f, d, kw) ==
    LET r == SettingsUpdate(cfg, kw)
        w == SettingsSave(r.cfg, f, d)
    IN  IF r.raised
        THEN [cfg |-> r.cfg, file |-> f, response |-> EmptyMap,
              returned |-> FALSE, saved |-> "none"]
        ELSE [cfg |-> r.cfg, file |-> w.file,
              response |-> IF w.ok THEN r.response ELSE EmptyMap,
              returned |-> w.ok, saved |-> IF w.ok THEN "ok" ELSE "failed"]

\* PropertyPlug.update: the entity's update, then the save whatever the
\* response; an exception of the entity's update leaves before the save
PlugUpdate(cfg, f, d, kw) ==
    LET r == SettingsUpdate(cfg, kw)
        w == SettingsSave(r.cfg, f, d)
    IN  IF r.raised
        THEN [cfg |-> r.cfg, file |-> f, response |-> EmptyMap,
              returned |-> FALSE, saved |-> "none"]
        ELSE [cfg |-> r.cfg, file |-> w.file, response |-> r.response,
              returned |-> TRUE, saved |-> IF w.ok THEN "ok" ELSE "failed"]

\* preset replacing the configuration without saving it
PlugPresetNoSave(f, d) ==
    [cfg |-> StructureDefault, file |-> f, response |-> EmptyMap,
     returned |-> TRUE, saved |-> "none"]

\* PropertyPlug.preset
PlugPreset(f, d) ==
    LET w == SettingsSave(StructureDefault, f, d)
    IN  [cfg |-> StructureDefault, file |-> w.file, response |-> EmptyMap,
         returned |-> TRUE, saved |-> IF w.ok THEN "ok" ELSE "failed"]

----------------------------------------------------------------------------
(* Inputs. *)

\* raw values of a keyword argument: a numeric string in every domain, a
\* float outside every domain, strings that are no number, None
Values == {StrV("0.504"), NumV(5000), StrV("a"), StrV(""), NoneV}

\* names of keyword arguments: the updatable attributes and a field name
\* that is no updatable attribute
ArgNames ==
    {"model", "temperature", "frequency", "presence", "top",
     "frequency_penalty"}

\* the 'models' keyword argument: not given, or the identifiers of a list
\* of Model objects
ModelPool == <<"a", "b", "c">>

ModelsArgs ==
    {[given |-> FALSE, ids |-> <<>>],
     [given |-> TRUE, ids |-> <<>>],
     [given |-> TRUE, ids |-> SubSeq(ModelPool, 1, MaxModels)]}

ArgPairs == [name : ArgNames, value : Values]

\* a call with two keyword arguments pairs any argument with one of these,
\* in either order
PairedArgs ==
    {[name |-> "temperature", value |-> StrV("0.504")],
     [name |-> "temperature", value |-> NumV(5000)]}

\* keyword arguments in call order: none, one or two, no name twice
ArgSeqs ==
    {<<>>}
        \cup {<<p>> : p \in ArgPairs}
        \cup {<<p, q>> : p \in {x \in ArgPairs : x.name # "temperature"},
                         q \in PairedArgs}
        \cup {<<q, p>> : p \in {x \in ArgPairs : x.name # "temperature"},
                         q \in PairedArgs}

KwargsDomain == [args : ArgSeqs, models : ModelsArgs]

NoKwargs == [args |-> <<>>, models |-> [given |-> FALSE, ids |-> <<>>]]

\* contents of the settings file at start-up
FileNoModel == FileMap([k \in {"temperature"} |-> YamlRepresent(NumV(500))])
FileUnknownKey == FileMap([k \in {"model", "prompt"} |-> YamlRepresent(StrV("a"))])
FileSaved == YamlDump([SettingsOf(StrV("a")) EXCEPT !.top_p = NumV(500)])
FileOutOfDomain ==
    FileMap([k \in {"model", "temperature"} |->
                IF k = "model" THEN YamlRepresent(StrV("a"))
                ELSE [tag |-> "!!float", text |-> "", num |-> 5000]])
FileModelNoString ==
    FileMap([k \in {"model"} |-> [tag |-> "!!int", text |-> "", num |-> 42000]])

InitialFiles ==
    {FileAbsent, FileGarbage, FileEmpty, FileScalar, FileNoModel,
     FileUnknownKey, FileSaved, FileOutOfDomain, FileModelNoString}

\* the file and the disk at start-up: any file on a disk that takes
\* writes, and no file or a saved file on a disk that does not
InitialWorlds ==
    [file : InitialFiles, disk : {"ok"}]
        \cup [file : {FileAbsent, FileSaved}, disk : {"denied", "full"}]

----------------------------------------------------------------------------
(* The state machine.  phase is "constructed" until load has run.  last    *)
(* is the call in progress: its input, the configuration before it, what   *)
(* it returned and how its write ended; it is dropped when the caller (a   *)
(* command handler of telegram.py) has replied, and the next call starts   *)
(* only then.                                                              *)

NoOp ==
    [op |-> "none", kw |-> NoKwargs, prev |-> SettingsOf(Absent),
     response |-> EmptyMap, returned |-> FALSE, saved |-> "none"]

Init ==
    /\ phase = "constructed"
    /\ configuration = SettingsOf(Absent)
    /\ \E w \in InitialWorlds : file = w.file /\ disk = w.disk
    /\ last = NoOp
    /\ gptplug_models = ModelsUnset
    /\ promptplug = PlugUnstudied
    /\ handlers = NoHandlers

\* PropertyPlug.load, called once at start-up (main.py)
Load ==
    /\ phase = "constructed"
    /\ last.op = "none"
    /\ phase' = "ready"
    /\ configuration' = PlugLoad(file)
    /\ last' = [NoOp EXCEPT !.op = "load", !.prev = configuration,
                            !.returned = TRUE]
    /\ UNCHANGED <<file, disk, gptplug_models>>
    /\ UNCHANGED <<promptplug, handlers>>

\* PropertyPlug.update(**kwargs)
Update ==
    /\ phase = "ready"
    /\ last.op = "none"
    /\ \E kw \in KwargsDomain :
          LET r == PlugUpdate(configuration, file, disk, kw)
          IN  /\ configuration' = r.cfg
              /\ file' = r.file
              /\ last' = [op |-> "update", kw |-> kw, prev |-> configuration,
                          response |-> r.response, returned |-> r.returned,
                          saved |-> r.saved]
    /\ UNCHANGED <<phase, disk, gptplug_models>>
    /\ UNCHANGED <<promptplug, handlers>>

\* PropertyPlug.preset()
Preset ==
    /\ phase = "ready"
    /\ last.op = "none"
    /\ LET r == PlugPreset(file, disk)
       IN  /\ configuration' = r.cfg
           /\ file' = r.file
           /\ last' = [NoOp EXCEPT !.op = "preset", !.prev = configuration,
                                   !.returned = TRUE, !.saved = r.saved]
    /\ UNCHANGED <<phase, disk, gptplug_models>>
    /\ UNCHANGED <<promptplug, handlers>>

\* the caller replies and ends
Reply ==
    /\ last.op # "none"
    /\ last' = NoOp
    /\ UNCHANGED <<phase, configuration, file, disk, gptplug_models>>
    /\ UNCHANGED <<promptplug, handlers>>

Next == Load \/ Update \/ Preset \/ Reply

Spec == Init /\ [][Next]_vars

\* the same machine started on a file that does not load, so that the
\* plug starts from the default entity
InitDefault == Init /\ ~SettingsLoad(file).successfull

SpecDefault == InitDefault /\ [][Next]_vars

----------------------------------------------------------------------------
(* The numeric fields on their own: the plug starts without a file and is  *)
(* updated one numeric attribute at a time, with values on, next to and    *)
(* beyond the margins of every domain.                                     *)

\* floats and strings given to a numeric attribute: the margins themselves,
\* values whose third decimal rounds onto a margin or away from it, a tie
\* (0.125), and a string that is no number
MarginValues ==
    {NumV(0), NumV(1000), NumV(2000), NumV(-2000),
     StrV("2.004"), NumV(2006), NumV(-2004), NumV(-2006),
     NumV(1004), NumV(1006), NumV(-4), NumV(-6), NumV(125), StrV("a")}

NumericKwargs ==
    [args : {<<[name |-> a, value |-> v]>> :
                a \in {"temperature", "frequency", "presence", "top"},
                v \in MarginValues},
     models : {[given |-> FALSE, ids |-> <<>>]}]

InitNumeric == Init /\ file = FileAbsent /\ disk = "ok"

\* PropertyPlug.update(attribute=value) for a numeric attribute
UpdateNumeric ==
    /\ phase = "ready"
    /\ last.op = "none"
    /\ \E kw \in NumericKwargs :
          LET r == PlugUpdate(configuration, file, disk, kw)
          IN  /\ configuration' = r.cfg
              /\ file' = r.file
              /\ last' = [op |-> "update", kw |-> kw, prev |-> configuration,
                          response |-> r.response, returned |-> r.returned,
                          saved |-> r.saved]
    /\ UNCHANGED <<phase, disk, gptplug_models>>
    /\ UNCHANGED <<promptplug, handlers>>

NextNumeric == Load \/ UpdateNumeric \/ Reply

SpecNumeric == InitNumeric /\ [][NextNumeric]_vars

----------------------------------------------------------------------------
(* Settings.clean_and_validate, the validation of a loaded entity.  No     *)
(* code of the repository calls it; it is applied here to the entities     *)
(* that load builds from files whose fields are of any type.               *)

\* one setter applied to the field's own value: a value float() cannot
\* take raises TypeError out of the range check
RevalidateField(st, attribute) ==
    LET m == UpdateMethod(attribute)
    IN  IF st.raised THEN st
        ELSE IF validate_numeric_raises(st.cfg[m.attr])
             THEN [st EXCEPT !.raised = TRUE]
             ELSE [st EXCEPT !.cfg = validate_and_assign(st.cfg, st.cfg[m.attr],
                                         m.attr, m.bounds, m.default).cfg]

\* Settings.clean_and_validate: the four setters in order, then the model
\* check, whose status is the return value
Settings_clean_and_validate(cfg) ==
    LET s0 == [cfg |-> cfg, raised |-> FALSE]
        s1 == RevalidateField(s0, "temperature")
        s2 == RevalidateField(s1, "frequency")
        s3 == RevalidateField(s2, "presence")
        s4 == RevalidateField(s3, "top")
    IN  [cfg |-> s4.cfg, raised |-> s4.raised,
         result |-> ~s4.raised /\ update_model(s4.cfg, s4.cfg.model, TRUE).status]

YamlNull == [tag |-> "!!null", text |-> "", num |-> 0]
YamlFloat(n) == [tag |-> "!!float", text |-> "", num |-> n]

\* the settings files: a model that is a string or an integer, a
\* temperature that is in its domain, beyond it, null, a word or a quoted
\* number, and a frequency_penalty and a top_p that are missing or beyond
\* their domains
ValidateFiles ==
    {FileMap([k \in {"model", "temperature"} \cup extra |->
                CASE k = "model" -> model
                  [] k = "temperature" -> temperature
                  [] k = "frequency_penalty" -> YamlFloat(-5000)
                  [] OTHER -> YamlFloat(7000)]) :
        model \in {YamlRepresent(StrV("a")),
                   [tag |-> "!!int", text |-> "", num |-> 42000]},
        temperature \in {YamlFloat(500), YamlFloat(5000), YamlNull,
                         YamlRepresent(StrV("abc")),
                         YamlRepresent(StrV("0.504"))},
        extra \in SUBSET {"frequency_penalty", "top_p"}}

InitValidate ==
    /\ phase = "constructed"
    /\ configuration = SettingsOf(Absent)
    /\ file \in ValidateFiles
    /\ disk = "ok"
    /\ last = NoOp
    /\ gptplug_models = ModelsUnset
    /\ promptplug = PlugUnstudied
    /\ handlers = NoHandlers

\* configuration.clean_and_validate(logger) on the loaded entity
CleanAndValidate ==
    /\ phase = "ready"
    /\ last.op = "none"
    /\ LET r == Settings_clean_and_validate(configuration)
       IN  /\ configuration' = r.cfg
           /\ last' = [NoOp EXCEPT !.op = "validate", !.prev = configuration,
                                   !.response = <<r.result>>,
                                   !.returned = ~r.raised]
    /\ UNCHANGED <<phase, file, disk, gptplug_models>>
    /\ UNCHANGED <<promptplug, handlers>>

NextValidate == Load \/ CleanAndValidate \/ Reply

SpecValidate == InitValidate /\ [][NextValidate]_vars

----------------------------------------------------------------------------
(* PromptPlug: the same PropertyPlug over the Prompt entity and its text   *)
(* file.  The variables are the attributes of the plug under study, so in  *)
(* the specifications of this section configuration is a Prompt and file   *)
(* is the prompt file.  A text is a sequence of characters, of which "CR"  *)
(* and "LF" are the carriage return and the line feed, because the file    *)
(* is opened in text mode and these two are translated.                    *)

TextV(chars) == [t |-> "str", s |-> chars, n |-> 0]
NoText == [t |-> "none", s |-> <<>>, n |-> 0]
NumberForText == [t |-> "num", s |-> <<>>, n |-> 42000]
TextUnset == [t |-> "absent", s |-> <<>>, n |-> 0]

\* Prompt(text=...)
PromptOf(text) == [text |-> text]

\* a default that is the empty text
EmptyPrompt == <<>>

\* constants.py: a text of several lines that begins and ends with a line
\* feed
DEFAULT_PROMPT == <<"LF", "p", "LF">>

\* os.linesep of the platform the bot runs on
linesep == <<"LF">>

\* writing to a file opened with open(path, 'w'): every line feed becomes
\* os.linesep
RECURSIVE WriteText(_)
WriteText(chars) ==
    IF chars = <<>> THEN <<>>
    ELSE (IF Head(chars) = "LF" THEN linesep ELSE <<Head(chars)>>)
             \o WriteText(Tail(chars))

\* reading a file opened with open(path, 'r'): universal newlines, so
\* CR LF and a lone CR both come back as one line feed
RECURSIVE ReadText(_)
ReadText(chars) ==
    IF chars = <<>> THEN <<>>
    ELSE IF Head(chars) = "CR"
         THEN IF Len(chars) > 1 /\ chars[2] = "LF"
              THEN <<"LF">> \o ReadText(Tail(Tail(chars)))
              ELSE <<"LF">> \o ReadText(Tail(chars))
         ELSE <<Head(chars)>> \o ReadText(Tail(chars))

\* the prompt file: absent, a text, or bytes that are no UTF-8
TextFile(chars) == [kind |-> "text", doc |-> chars]
FileNoText == [kind |-> "binary", doc |-> <<>>]

\* an update of the text that assigns whatever it is given
update_text_unchecked(cfg, value) ==
    [cfg |-> [cfg EXCEPT !.text = value], ok |-> TRUE]

\* an update of the text that takes no empty string
update_text_not_empty(cfg, value) ==
    IF ~validate_str(value) \/ value.s = <<>>
    THEN [cfg |-> cfg, ok |-> FALSE]
    ELSE [cfg |-> [cfg EXCEPT !.text = value], ok |-> TRUE]

\* Prompt._update_text
update_text(cfg, value) ==
    IF ~validate_str(value)
    THEN [cfg |-> cfg, ok |-> FALSE]
    ELSE [cfg |-> [cfg EXCEPT !.text = value], ok |-> TRUE]

\* Prompt.update(**kwargs): the first keyword argument only, whatever its
\* name; the response is the tuple (ok, value), or the empty tuple when
\* there is no argument
PromptUpdate(cfg, args) ==
    IF args = <<>>
    THEN [cfg |-> cfg, response |-> <<>>]
    ELSE LET r == update_text(cfg, args[1].value)
         IN  [cfg |-> r.cfg, response |-> <<r.ok, args[1].value>>]

\* Prompt.load: (successfull, configuration)
PromptLoad(f) ==
    IF f.kind = "text"
    THEN [successfull |-> TRUE,
          configuration |-> PromptOf(TextV(ReadText(f.doc)))]
    ELSE [successfull |-> FALSE, configuration |-> PromptOf(TextUnset)]

\* a save that opens the file to append
PromptSaveAppends(cfg, f, d) ==
    CASE d = "ok" /\ cfg.text.t = "str" ->
            [ok |-> TRUE,
             file |-> TextFile((IF f.kind = "text" THEN f.doc ELSE <<>>)
                                   \o WriteText(cfg.text.s))]
      [] d = "ok" -> [ok |-> FALSE, file |-> f]
      [] d = "denied" -> [ok |-> FALSE, file |-> f]
      [] OTHER -> [ok |-> FALSE, file |-> f]

\* Prompt.save: (ok, file afterwards).  open() truncates the file; write
\* raises TypeError for a text that is no string and OSError on a full disk
PromptSave(cfg, f, d) ==
    CASE d = "ok" /\ cfg.text.t = "str" ->
            [ok |-> TRUE, file |-> TextFile(WriteText(cfg.text.s))]
      [] d = "ok" -> [ok |-> FALSE, file |-> TextFile(<<>>)]
      [] d = "denied" -> [ok |-> FALSE, file |-> f]
      [] OTHER -> [ok |-> FALSE, file |-> TextFile(<<>>)]

\* self.structure(self.default) of PromptPlug
PromptDefault == PromptOf(TextV(DEFAULT_PROMPT))

\* PropertyPlug.load of PromptPlug
PromptPlugLoad(f) ==
    LET loaded == PromptLoad(f)
    IN  IF loaded.successfull THEN loaded.configuration ELSE PromptDefault

\* PropertyPlug.update of PromptPlug
PromptPlugUpdate(cfg, f, d, args) ==
    LET r == PromptUpdate(cfg, args)
        w == PromptSave(r.cfg, f, d)
    IN  [cfg |-> r.cfg, file |-> w.file, response |-> r.response,
         returned |-> TRUE, saved |-> IF w.ok THEN "ok" ELSE "failed"]

\* PropertyPlug.preset of PromptPlug
PromptPlugPreset(f, d) ==
    LET w == PromptSave(PromptDefault, f, d)
    IN  [cfg |-> PromptDefault, file |-> w.file, response |-> <<>>,
         returned |-> TRUE, saved |-> IF w.ok THEN "ok" ELSE "failed"]

\* values given as the text: strings (the empty one, a word, two lines
\* parted by CR LF), None, a number
PromptTexts == {<<>>, <<"h">>, <<"h", "CR", "LF", "i">>}

PromptValues == {TextV(chars) : chars \in PromptTexts} \cup {NoText, NumberForText}

\* keyword arguments in call order: none, prompt=value, or two of which
\* the first is prompt
PromptArgSeqs ==
    {<<>>}
        \cup {<<[name |-> "prompt", value |-> v]>> : v \in PromptValues}
        \cup {<<[name |-> "prompt", value |-> v],
                [name |-> "text", value |-> TextV(<<"h">>)]>> :
                    v \in {TextV(<<>>), NoText}}

PromptKwargs(args) == [args |-> args, models |-> [given |-> FALSE, ids |-> <<>>]]

\* the prompt file and the disk at start-up
InitialPromptWorlds ==
    [file : {FileAbsent, FileNoText, TextFile(<<>>), TextFile(<<"h">>),
             TextFile(<<"h", "CR", "LF", "i">>)},
     disk : {"ok"}]
        \cup [file : {FileAbsent, TextFile(<<"h">>)}, disk : {"denied", "full"}]

\* the plug under study is the PromptPlug
PromptPlugged == "text" \in DOMAIN configuration

\* the plug under study is the SettingsPlug
SettingsPlugged == "model" \in DOMAIN configuration

InitPrompt ==
    /\ phase = "constructed"
    /\ configuration = PromptOf(TextUnset)
    /\ \E w \in InitialPromptWorlds : file = w.file /\ disk = w.disk
    /\ last = NoOp
    /\ gptplug_models = ModelsUnset
    /\ promptplug = PlugUnstudied
    /\ handlers = NoHandlers

\* PromptPlug(...).load(prompt), called once at start-up (main.py)
LoadPrompt ==
    /\ PromptPlugged
    /\ phase = "constructed"
    /\ last.op = "none"
    /\ phase' = "ready"
    /\ configuration' = PromptPlugLoad(file)
    /\ last' = [NoOp EXCEPT !.op = "load", !.prev = configuration,
                            !.returned = TRUE]
    /\ UNCHANGED <<file, disk, gptplug_models>>
    /\ UNCHANGED <<promptplug, handlers>>

\* the update of the PromptPlug with the given keyword arguments
PromptCall(op, args) ==
    LET r == PromptPlugUpdate(configuration, file, disk, args)
    IN  /\ configuration' = r.cfg
        /\ file' = r.file
        /\ last' = [op |-> op, kw |-> PromptKwargs(args),
                    prev |-> configuration, response |-> r.response,
                    returned |-> r.returned, saved |-> r.saved]
        /\ UNCHANGED <<phase, disk, gptplug_models, promptplug, handlers>>

\* PromptPlug.update(**kwargs); /prompt set calls it with prompt=text
UpdatePrompt ==
    /\ PromptPlugged
    /\ phase = "ready"
    /\ last.op = "none"
    /\ \E args \in PromptArgSeqs : PromptCall("update", args)

\* /prompt reset: update(prompt="")
ResetPrompt ==
    /\ PromptPlugged
    /\ phase = "ready"
    /\ last.op = "none"
    /\ PromptCall("reset", <<[name |-> "prompt", value |-> TextV(<<>>)]>>)

\* /prompt default: PromptPlug.preset()
PresetPrompt ==
    /\ PromptPlugged
    /\ phase = "ready"
    /\ last.op = "none"
    /\ LET r == PromptPlugPreset(file, disk)
       IN  /\ configuration' = r.cfg
           /\ file' = r.file
           /\ last' = [NoOp EXCEPT !.op = "preset", !.prev = configuration,
                                   !.returned = TRUE, !.saved = r.saved]
    /\ UNCHANGED <<phase, disk, gptplug_models>>
    /\ UNCHANGED <<promptplug, handlers>>

NextPrompt == LoadPrompt \/ UpdatePrompt \/ ResetPrompt \/ PresetPrompt \/ Reply

SpecPrompt == InitPrompt /\ [][NextPrompt]_vars

\* either manager: the run follows the SettingsPlug or the PromptPlug
InitPlugs == Init \/ InitPrompt

NextPlugs ==
    \/ SettingsPlugged /\ Load
    \/ SettingsPlugged /\ Update
    \/ SettingsPlugged /\ Preset
    \/ LoadPrompt
    \/ UpdatePrompt
    \/ ResetPrompt
    \/ PresetPrompt
    \/ Reply

SpecPlugs == InitPlugs /\ [][NextPlugs]_vars

----------------------------------------------------------------------------
(* GPTPlug.models_list: the listing of the provider's models.  An answer   *)
(* of the provider is a status and a body; the body is no JSON, a JSON     *)
(* array, or a JSON object whose member data is missing, no list, or a     *)
(* list of items; an item is a record of members or something else.  A     *)
(* member that a record does not have is Absent.                           *)

BoolV(b) == [t |-> "bool", s |-> "", n |-> IF b THEN 1 ELSE 0]

\* the truth value Python gives a value in a condition
Truthy(value) ==
    CASE value.t = "bool" -> value.n = 1
      [] value.t = "str" -> value.s # ""
      [] value.t = "num" -> value.n # 0
      [] value.t = "nan" -> TRUE
      [] OTHER -> FALSE

\* dict.get(key): None for a key that is missing
Get(item, key) == IF item[key].t = "absent" THEN NoneV ELSE item[key]

\* time.strftime('%d/%m/%Y', time.localtime(timestamp)): the date of the
\* day the second falls in
to_datestring(timestamp) ==
    [t |-> "str", s |-> "dd/mm/YYYY", n |-> timestamp.n \div 86400000]

\* the margins of context_window and max_completion_tokens
WindowMargins == <<0, 1024 * 1024 * 1000>>

\* one optional field after its check: the value, or None
Checked(passes, value) == IF passes THEN value ELSE NoneV

\* Model.clean_and_validate: kept is its return value, model the object
\* afterwards; it raises TypeError where float() is given None (a member
\* that is missing or null) and where time.localtime is given a string
Model_clean_and_validate(m) ==
    IF ~validate_str(m.model)
    THEN [kept |-> FALSE, raised |-> FALSE, model |-> m]
    ELSE IF \/ validate_numeric_raises(m.created)
            \/ validate_range(<<0, Now>>, m.created) /\ m.created.t = "str"
            \/ validate_numeric_raises(m.context_window)
            \/ validate_numeric_raises(m.max_completion_tokens)
         THEN [kept |-> FALSE, raised |-> TRUE, model |-> m]
         ELSE [kept |-> TRUE, raised |-> FALSE,
               model |->
                  [model |-> m.model,
                   created |->
                      IF validate_range(<<0, Now>>, m.created)
                      THEN to_datestring(m.created) ELSE NoneV,
                   owned_by |-> Checked(validate_str(m.owned_by), m.owned_by),
                   context_window |->
                      Checked(validate_range(WindowMargins, m.context_window),
                              m.context_window),
                   max_completion_tokens |->
                      Checked(validate_range(WindowMargins,
                                             m.max_completion_tokens),
                              m.max_completion_tokens)]]

\* Model(model=model.get('id'), created=model.get('created'), ...)
ModelOf(item) ==
    [model |-> Get(item, "id"),
     created |-> Get(item, "created"),
     owned_by |-> Get(item, "owned_by"),
     context_window |-> Get(item, "context_window"),
     max_completion_tokens |-> Get(item, "max_completion_tokens")]

\* the test of the comprehension: model.get('active')
IsActive(item) == Truthy(Get(item, "active"))

\* a sequence mapped through Model.clean_and_validate
CleanedModels(ms) == [i \in 1..Len(ms) |-> Model_clean_and_validate(ms[i]).model]

Keeps(m) == Model_clean_and_validate(m).kept

\* GPTPlug.models_list for one answer of the provider: whether it returns
\* or raises, the list it returns, and whether self.models is assigned
models_list(answer) ==
    LET Returns(list, assigned) ==
            [returned |-> TRUE, list |-> list, assigned |-> assigned]
        Raises == [returned |-> FALSE, list |-> <<>>, assigned |-> FALSE]
    IN  IF answer.status = "none" THEN Raises
        ELSE IF answer.status # "200" THEN Returns(<<>>, FALSE)
        ELSE IF answer.body.kind # "object" THEN Raises
        ELSE IF \/ answer.body.data.kind # "list"
                \/ answer.body.data.items = <<>>
                \/ \E i \in 1..Len(answer.body.data.items) :
                      answer.body.data.items[i].kind # "record"
             THEN Returns(<<>>, FALSE)
        ELSE LET active == SelectSeq(answer.body.data.items, IsActive)
                 built == [i \in 1..Len(active) |-> ModelOf(active[i])]
             IN  IF \E i \in 1..Len(built) :
                        Model_clean_and_validate(built[i]).raised
                 THEN Raises
                 ELSE Returns(CleanedModels(SelectSeq(built, Keeps)), TRUE)

\* an item of the data list that is a record
Record(id, created, owned_by, context_window, max_completion_tokens, active) ==
    [kind |-> "record", id |-> id, created |-> created, owned_by |-> owned_by,
     context_window |-> context_window,
     max_completion_tokens |-> max_completion_tokens, active |-> active]

\* an item of the data list that is no record (a string, a number)
NoRecord == [Record(Absent, Absent, Absent, Absent, Absent, Absent)
                EXCEPT !.kind = "scalar"]

\* a record with every member in order
FullRecord(id, active) ==
    Record(StrV(id), NumV(1000000), StrV("owner"), NumV(8192000),
           NumV(8192000), active)

\* records of the answers: complete and active; active with optional
\* members that fail their checks (a time to come, an owner that is a
\* number, a negative window, a limit that is no number); complete and
\* inactive; active with a number as id and nothing else; active with a
\* string as id and nothing else; complete without the member active
ItemPool ==
    {FullRecord("m1", BoolV(TRUE)),
     Record(StrV("m2"), NumV(9000000), NumV(7000), NumV(-1000), StrV("a"),
            BoolV(TRUE)),
     FullRecord("m3", BoolV(FALSE)),
     Record(NumV(42000), Absent, Absent, Absent, Absent, BoolV(TRUE)),
     Record(StrV("m4"), Absent, Absent, Absent, Absent, BoolV(TRUE)),
     FullRecord("m5", Absent),
     NoRecord}

RECURSIVE ItemLists(_)
ItemLists(n) ==
    IF n = 0 THEN {<<>>}
    ELSE ItemLists(n - 1)
            \cup {Append(l, x) : l \in {k \in ItemLists(n - 1) : Len(k) = n - 1},
                                 x \in ItemPool}

DataList(items) == [kind |-> "list", items |-> items]
DataMissing == [kind |-> "missing", items |-> <<>>]
DataNoList == [kind |-> "scalar", items |-> <<>>]

JsonObject(data) == [kind |-> "object", data |-> data]
JsonArray == [kind |-> "array", data |-> DataMissing]
NoJson == [kind |-> "text", data |-> DataMissing]

Bodies ==
    {NoJson, JsonArray, JsonObject(DataMissing), JsonObject(DataNoList)}
        \cup {JsonObject(DataList(l)) : l \in ItemLists(MaxItems)}

\* the answers of the provider: 200 with any body, an error status with a
\* body that is JSON or not, and no answer at all (requests.get raises)
Answers ==
    [status : {"200"}, body : Bodies]
        \cup [status : {"500"},
              body : {NoJson, JsonObject(DataMissing),
                      JsonObject(DataList(<<FullRecord("m1", BoolV(TRUE))>>))}]
        \cup [status : {"none"}, body : {NoJson}]

InitListing ==
    /\ phase = "constructed"
    /\ configuration = SettingsOf(Absent)
    /\ file = FileAbsent
    /\ disk = "ok"
    /\ last = NoOp
    /\ gptplug_models = ModelsUnset
    /\ promptplug = PlugUnstudied
    /\ handlers = NoHandlers

\* one call of models_list: the answer is the call's input, the cache
\* before it is kept in prev
ListingCall(answer, next_phase_if_raised) ==
    LET r == models_list(answer)
    IN  /\ gptplug_models' =
              IF r.assigned THEN [set |-> TRUE, list |-> r.list]
              ELSE gptplug_models
        /\ last' = [op |-> "models_list", kw |-> answer,
                    prev |-> gptplug_models, response |-> r.list,
                    returned |-> r.returned, saved |-> "none"]
        /\ phase' = IF r.returned THEN "ready" ELSE next_phase_if_raised
        /\ UNCHANGED <<configuration, file, disk, promptplug, handlers>>

\* GPTPlug.__init__ (main.py): the first listing; an exception ends the
\* program before the bot runs
Construct ==
    /\ phase = "constructed"
    /\ last.op = "none"
    /\ \E answer \in Answers : ListingCall(answer, "crashed")

\* /models list: gptplug.models_list() in the handler; an exception is
\* left to the dispatcher and the bot goes on
ListModels ==
    /\ phase = "ready"
    /\ last.op = "none"
    /\ \E answer \in Answers : ListingCall(answer, "ready")

\* the caller of the listing ends; after a crash nothing follows
ReplyListing ==
    /\ phase = "ready"
    /\ Reply

NextListing == Construct \/ ListModels \/ ReplyListing

SpecListing == InitListing /\ [][NextListing]_vars

----------------------------------------------------------------------------
(* The bot (main.py, telegram.py): the GPTPlug, the SettingsPlug (in       *)
(* configuration and file) and the PromptPlug (in promptplug) together,    *)
(* and the handlers of the commands /chat, /models and /prompt.  A         *)
(* handler runs the synchronous part of its command (for an update: the    *)
(* mutation of the entity, then its save) and then awaits its reply; an    *)
(* exception ends it without a reply.  The arguments of a command are      *)
(* words of the message, so every value is a string.                       *)

Sessions == {"s1", "s2"}

\* str.strip() of a text: the white space at both ends goes
WhiteSpace == {" ", "LF", "CR"}

RECURSIVE LStrip(_)
LStrip(chars) ==
    IF chars # <<>> /\ Head(chars) \in WhiteSpace THEN LStrip(Tail(chars))
    ELSE chars

RECURSIVE RStrip(_)
RStrip(chars) ==
    IF chars # <<>> /\ chars[Len(chars)] \in WhiteSpace
    THEN RStrip(SubSeq(chars, 1, Len(chars) - 1))
    ELSE chars

Strip(chars) == RStrip(LStrip(chars))

\* what client.chat.completions.create does: it returns a completion whose
\* first choice has a content (a text, or None), it returns a completion
\* without choices, or it raises (no connection, a time-out, an error
\* status of the provider)
Completion(content) == [kind |-> "completion", content |-> content]
NoChoices == [kind |-> "nochoices", content |-> NoText]
ProviderError == [kind |-> "error", content |-> NoText]

ChatOutcomes ==
    {Completion(TextV(<<"o">>)), Completion(TextV(<<" ", "o", "LF">>)),
     Completion(NoText), NoChoices, ProviderError}

\* the keyword arguments of client.chat.completions.create
ChatRequest(query, settings, prompt) ==
    [system |-> prompt.text, user |-> query, model |-> settings.model,
     temperature |-> settings.temperature,
     frequency_penalty |-> settings.frequency_penalty,
     presence_penalty |-> settings.presence_penalty,
     top_p |-> settings.top_p]

NoRequest == <<>>

\* a chat without the try: what create raises leaves the method
GPTPlug_chat_unguarded(query, settings, prompt, outcome) ==
    [request |-> ChatRequest(query, settings, prompt),
     returned |-> outcome.kind = "completion" /\ outcome.content.t = "str",
     response |->
        IF outcome.kind = "completion" /\ outcome.content.t = "str"
        THEN <<TRUE, TextV(Strip(outcome.content.s))>>
        ELSE <<>>]

\* a chat that asks with the default settings
GPTPlug_chat_defaults(query, settings, prompt, outcome) ==
    [request |-> ChatRequest(query, StructureDefault, prompt),
     returned |-> TRUE,
     response |->
        IF outcome.kind = "completion" /\ outcome.content.t = "str"
        THEN <<TRUE, TextV(Strip(outcome.content.s))>>
        ELSE <<FALSE, NoText>>]

\* GPTPlug.chat: one call of create inside the try; its content stripped,
\* or (False, None) for whatever is raised there (None.strip() and
\* choices[0] of no choices included).  connect() builds the client from
\* the token that main.py has checked
GPTPlug_chat(query, settings, prompt, outcome) ==
    [request |-> ChatRequest(query, settings, prompt),
     returned |-> TRUE,
     response |->
        IF outcome.kind = "completion" /\ outcome.content.t = "str"
        THEN <<TRUE, TextV(Strip(outcome.content.s))>>
        ELSE <<FALSE, NoText>>]

\* a command: the handler's name, its first argument, and for set the
\* attribute and the value (a word for /models, a text for /prompt and
\* for the query of /chat)
Command(cmd, sub, attr, value, text) ==
    [cmd |-> cmd, sub |-> sub, attr |-> attr, value |-> value, text |-> text]

NoCommand == Command("", "", "", "", <<>>)

BotCommands ==
    {Command("chat", "", "", "", q) : q \in {<<>>, <<"h", "i">>}}
        \cup {Command("models", sub, "", "", <<>>) :
                 sub \in {"get", "list", "default", "help"}}
        \cup {Command("models", "set", "model", v, <<>>) : v \in {"a", "b"}}
        \cup {Command("models", "set", "temperature", v, <<>>) :
                 v \in {"0.504", "2.004", "a"}}
        \cup {Command("prompt", sub, "", "", <<>>) :
                 sub \in {"get", "reset", "default", "help"}}
        \cup {Command("prompt", "set", "", "", <<"h">>)}

\* the answers of the provider to a listing: one active model "a", one
\* inactive model, an error status, and a body that is a JSON array
BotAnswers ==
    {[status |-> "200",
      body |-> JsonObject(DataList(<<FullRecord("a", BoolV(TRUE))>>))],
     [status |-> "200",
      body |-> JsonObject(DataList(<<FullRecord("b", BoolV(FALSE))>>))],
     [status |-> "500", body |-> NoJson],
     [status |-> "200", body |-> JsonArray]}

\* no answer of the provider
NoAnswer == [status |-> "none", body |-> NoJson]

\* a handler: where it is, its command, the request it made (the chat
\* request, or the list of known models of an update), what the provider
\* did and what the plug returned; entity is the entity it has mutated,
\* result the entity as its mutation left it, and latest says that its
\* save is the last one made of that entity
IdleHandler ==
    [pc |-> "idle", command |-> NoCommand, request |-> NoRequest,
     provider |-> NoAnswer, response |-> <<>>, entity |-> "none",
     latest |-> FALSE, result |-> <<>>]

Active == {"run", "save", "reply"}

\* the settings file, the prompt file and the disk at start-up
BotWorlds ==
    [file : {FileAbsent, FileSaved}, promptfile : {FileAbsent, TextFile(<<"h">>)},
     disk : {"ok"}]
        \cup [file : {FileAbsent}, promptfile : {FileAbsent}, disk : {"denied"}]

InitBot ==
    /\ phase = "constructed"
    /\ configuration = SettingsOf(Absent)
    /\ \E w \in BotWorlds :
          /\ file = w.file
          /\ disk = w.disk
          /\ promptplug = [configuration |-> PromptOf(TextUnset),
                           file |-> w.promptfile]
    /\ last = NoOp
    /\ gptplug_models = ModelsUnset
    /\ handlers = [s \in Sessions |-> IdleHandler]

\* main.py: GPTPlug(...) with its first listing, then the load of the two
\* managers; an exception of the listing ends the program
Start ==
    /\ phase = "constructed"
    /\ \E answer \in BotAnswers :
          LET r == models_list(answer)
          IN  IF ~r.returned
              THEN /\ phase' = "crashed"
                   /\ UNCHANGED <<configuration, gptplug_models, promptplug>>
              ELSE /\ phase' = "ready"
                   /\ gptplug_models' =
                         IF r.assigned THEN [set |-> TRUE, list |-> r.list]
                         ELSE gptplug_models
                   /\ configuration' = PlugLoad(file)
                   /\ promptplug' =
                         [promptplug EXCEPT
                             !.configuration = PromptPlugLoad(promptplug.file)]
    /\ UNCHANGED <<file, disk, last, handlers>>

\* a dispatcher that does not wait
AlwaysDispatchable == TRUE

\* the dispatcher of the Application hands the next update to its handler
\* when the handler of the update before has ended
Dispatchable == \A t \in Sessions : handlers[t].pc \notin Active

\* the handler of session s becomes h
Becomes(s, h) == handlers' = [handlers EXCEPT ![s] = h]

\* the handler of session s is in the synchronous part of command cmd
Running(s, cmd, subs) ==
    /\ handlers[s].pc = "run"
    /\ handlers[s].command.cmd = cmd
    /\ handlers[s].command.sub \in subs

\* the handler h has raised: the dispatcher logs it and no reply is sent
Raised(h) == [IdleHandler EXCEPT !.pc = "raised", !.command = h.command]

\* a command of a session arrives and its handler starts
Dispatch(s) ==
    /\ phase = "ready"
    /\ Dispatchable
    /\ handlers[s].pc \notin Active
    /\ \E c \in BotCommands :
          Becomes(s, [IdleHandler EXCEPT !.pc = "run", !.command = c])
    /\ UNCHANGED <<phase, configuration, file, disk, last, gptplug_models,
                   promptplug>>

\* TelegramBot.chat: the help for an empty query, else GPTPlug.chat with
\* the live entities
RunChat(s) ==
    /\ Running(s, "chat", {""})
    /\ IF handlers[s].command.text = <<>>
       THEN Becomes(s, [handlers[s] EXCEPT !.pc = "reply"])
       ELSE \E outcome \in ChatOutcomes :
               LET r == GPTPlug_chat(handlers[s].command.text, configuration,
                                     promptplug.configuration, outcome)
               IN  IF r.returned
                   THEN Becomes(s, [handlers[s] EXCEPT !.pc = "reply",
                                       !.request = r.request,
                                       !.provider = outcome,
                                       !.response = r.response])
                   ELSE Becomes(s, Raised(handlers[s]))
    /\ UNCHANGED <<phase, configuration, file, disk, last, gptplug_models,
                   promptplug>>

\* /models get, /prompt get and the help texts: a formatted reply of what
\* is there
RunGet(s) ==
    /\ \/ Running(s, "models", {"get", "help"})
       \/ Running(s, "prompt", {"get", "help"})
    /\ Becomes(s, [handlers[s] EXCEPT !.pc = "reply"])
    /\ UNCHANGED <<phase, configuration, file, disk, last, gptplug_models,
                   promptplug>>

\* /models list: gptplug.models_list()
RunList(s) ==
    /\ Running(s, "models", {"list"})
    /\ \E answer \in BotAnswers :
          LET r == models_list(answer)
          IN  /\ gptplug_models' =
                    IF r.assigned THEN [set |-> TRUE, list |-> r.list]
                    ELSE gptplug_models
              /\ IF r.returned
                 THEN Becomes(s, [handlers[s] EXCEPT !.pc = "reply",
                                     !.provider = answer,
                                     !.response = r.list,
                                     !.result = gptplug_models])
                 ELSE Becomes(s, [Raised(handlers[s]) EXCEPT
                                     !.provider = answer,
                                     !.result = gptplug_models])
    /\ UNCHANGED <<phase, configuration, file, disk, last, promptplug>>

\* /models default: settingsplug.preset() up to its save
RunModelsDefault(s) ==
    /\ Running(s, "models", {"default"})
    /\ configuration' = StructureDefault
    /\ Becomes(s, [handlers[s] EXCEPT !.pc = "save", !.entity = "settings",
                       !.result = StructureDefault])
    /\ UNCHANGED <<phase, file, disk, last, gptplug_models, promptplug>>

\* the 'models' keyword argument: self.gptplug.models
CachedIds ==
    [given |-> TRUE,
     ids |-> [i \in 1..Len(gptplug_models.list) |->
                 gptplug_models.list[i].model.s]]

\* /models set attribute value: settingsplug.update(**{attribute: value,
\* 'models': self.gptplug.models}) up to its save; the attribute models of
\* a GPTPlug whose listings have all failed does not exist, and reading it
\* raises AttributeError
RunModelsSet(s) ==
    /\ Running(s, "models", {"set"})
    /\ IF ~gptplug_models.set
       THEN Becomes(s, Raised(handlers[s])) /\ UNCHANGED configuration
       ELSE LET kw == [args |-> <<[name |-> handlers[s].command.attr,
                                  value |-> StrV(handlers[s].command.value)]>>,
                       models |-> CachedIds]
                r == SettingsUpdate(configuration, kw)
            IN  /\ configuration' = r.cfg
                /\ IF r.raised THEN Becomes(s, Raised(handlers[s]))
                   ELSE Becomes(s, [handlers[s] EXCEPT !.pc = "save",
                                       !.entity = "settings",
                                       !.request = kw.models,
                                       !.response = r.response,
                                       !.result = r.cfg])
    /\ UNCHANGED <<phase, file, disk, last, gptplug_models, promptplug>>

\* /prompt reset and /prompt set text: promptplug.update(prompt=...) up to
\* its save
RunPromptSet(s) ==
    /\ Running(s, "prompt", {"reset", "set"})
    /\ LET r == PromptUpdate(promptplug.configuration,
                             <<[name |-> "prompt",
                                value |-> TextV(handlers[s].command.text)]>>)
       IN  /\ promptplug' = [promptplug EXCEPT !.configuration = r.cfg]
           /\ Becomes(s, [handlers[s] EXCEPT !.pc = "save",
                              !.entity = "prompt", !.response = r.response,
                              !.result = r.cfg])
    /\ UNCHANGED <<phase, configuration, file, disk, last, gptplug_models>>

\* /prompt default: promptplug.preset() up to its save
RunPromptDefault(s) ==
    /\ Running(s, "prompt", {"default"})
    /\ promptplug' = [promptplug EXCEPT !.configuration = PromptDefault]
    /\ Becomes(s, [handlers[s] EXCEPT !.pc = "save", !.entity = "prompt",
                       !.result = PromptDefault])
    /\ UNCHANGED <<phase, configuration, file, disk, last, gptplug_models>>

\* self.configuration.save(self.filepath) of update and preset: the live
\* entity is written, whatever the save returns
SaveEntity(s) ==
    /\ handlers[s].pc = "save"
    /\ IF handlers[s].entity = "settings"
       THEN /\ file' = SettingsSave(configuration, file, disk).file
            /\ UNCHANGED promptplug
       ELSE /\ promptplug' =
                  [promptplug EXCEPT
                      !.file = PromptSave(promptplug.configuration,
                                          promptplug.file, disk).file]
            /\ UNCHANGED file
    /\ handlers' =
          [t \in Sessions |->
              IF t = s THEN [handlers[s] EXCEPT !.pc = "reply", !.latest = TRUE]
              ELSE IF handlers[t].entity = handlers[s].entity
                   THEN [handlers[t] EXCEPT
                            !.latest = FALSE,
                            !.result = IF handlers[t].pc = "replied"
                                       THEN <<>> ELSE handlers[t].result]
                   ELSE handlers[t]]
    /\ UNCHANGED <<phase, configuration, disk, last, gptplug_models>>

\* await update.message.reply_text(...): the reply is sent and the handler
\* ends
SendReply(s) ==
    /\ handlers[s].pc = "reply"
    /\ Becomes(s, [handlers[s] EXCEPT !.pc = "replied", !.command = NoCommand,
                       !.request = NoRequest, !.provider = NoAnswer,
                       !.response = <<>>,
                       !.result = IF handlers[s].latest
                                  THEN handlers[s].result ELSE <<>>])
    /\ UNCHANGED <<phase, configuration, file, disk, last, gptplug_models,
                   promptplug>>

\* the steps of the handler of session s
HandlerStep(s) ==
    \/ RunChat(s)
    \/ RunGet(s)
    \/ RunList(s)
    \/ RunModelsDefault(s)
    \/ RunModelsSet(s)
    \/ RunPromptSet(s)
    \/ RunPromptDefault(s)
    \/ SaveEntity(s)
    \/ SendReply(s)

NextBot == Start \/ \E s \in Sessions : Dispatch(s) \/ HandlerStep(s)

SpecBot == InitBot /\ [][NextBot]_vars

\* the event loop runs a handler that has started until it ends; nothing
\* says that a further command arrives
SpecBotFair ==
    SpecBot /\ WF_vars(Start) /\ \A s \in Sessions : WF_vars(HandlerStep(s))

----------------------------------------------------------------------------
(* Vocabulary of the properties. *)

\* the declared domain of each numeric field, in thousandths
DeclaredDomain ==
    [temperature |-> <<0, 2000>>,
     frequency_penalty |-> <<-2000, 2000>>,
     presence_penalty |-> <<-2000, 2000>>,
     top_p |-> <<0, 1000>>]

NumericFields == DOMAIN DeclaredDomain

InDeclaredDomain(field, x) ==
    /\ x.t = "num"
    /\ DeclaredDomain[field][1] <= x.n
    /\ x.n <= DeclaredDomain[field][2]

\* the updatable attribute names of the numeric fields (/models set)
FieldOfAttr ==
    [temperature |-> "temperature",
     frequency |-> "frequency_penalty",
     presence |-> "presence_penalty",
     top |-> "top_p"]

NumericAttrs == DOMAIN FieldOfAttr

\* the default entity, value by value
DefaultEntity ==
    [model |-> StrV("llama-3.3-70b-versatile"),
     temperature |-> NumV(1000),
     frequency_penalty |-> NumV(0),
     presence_penalty |-> NumV(0),
     top_p |-> NumV(1000)]

\* the arguments of the update in progress
Args == last.kw.args

Updating == last.op = "update"

\* the raw value is a number or a string that spells one
ReadsAsNumber(value) ==
    \/ value.t \in {"num", "nan"}
    \/ value.t = "str" /\ value.s \in DOMAIN NumericStrings

\* the attempted value of a numeric argument
Attempted(value) == Round2(Float(value))

\* the status entry of a name in the returned mapping
Reported(name, ok, value) ==
    /\ last.returned
    /\ name \in DOMAIN last.response
    /\ last.response[name] = [ok |-> ok, value |-> value]

\* every value of the update is a string or a number
PlainValues == \A i \in 1..Len(Args) : Args[i].value.t \in {"str", "num", "nan"}

\* the update was given a non-empty list of known models
ListGiven == last.kw.models.given /\ last.kw.models.ids # <<>>

IsMember(value) ==
    /\ value.t = "str"
    /\ value.s \in {last.kw.models.ids[i] : i \in 1..Len(last.kw.models.ids)}

----------------------------------------------------------------------------
(* Properties. *)

\* C1: an update of a numeric field whose numeric value is outside the
\* field's domain leaves the field at its previous in-domain value and is
\* reported as (false, attempted value).
C1_OutOfDomainKeepsPrevious ==
    Updating =>
        \A i \in 1..Len(Args) :
            (/\ last.returned
             /\ Args[i].name \in NumericAttrs
             /\ validate_numeric(Args[i].value)
             /\ ~InDeclaredDomain(FieldOfAttr[Args[i].name],
                                  Attempted(Args[i].value))
             /\ InDeclaredDomain(FieldOfAttr[Args[i].name],
                                 last.prev[FieldOfAttr[Args[i].name]]))
            => /\ configuration[FieldOfAttr[Args[i].name]]
                      = last.prev[FieldOfAttr[Args[i].name]]
               /\ Reported(Args[i].name, FALSE, Attempted(Args[i].value))

\* C2: starting from the default entity, after any sequence of updates and
\* presets every numeric field lies inside its declared domain.
C2_FieldsStayInDomain ==
    phase = "ready" =>
        \A field \in NumericFields :
            InDeclaredDomain(field, configuration[field])

\* an update has just rejected an out-of-domain value while a field holds an
\* accepted value other than its default
C2_Witness ==
    /\ Updating
    /\ last.returned
    /\ \E i \in 1..Len(Args) :
          /\ Args[i].name \in NumericAttrs
          /\ Reported(Args[i].name, FALSE, NumV(5000))
    /\ \E field \in NumericFields : configuration[field] # DefaultEntity[field]

\* C3: after load, for every content of the file, every numeric field is
\* inside its domain and model is a string.
C3_LoadedEntityValid ==
    last.op = "load" =>
        /\ \A field \in NumericFields :
              InDeclaredDomain(field, configuration[field])
        /\ configuration.model.t = "str"

\* the file is missing, malformed, or lacks the required field
Unloadable ==
    \/ file.kind \in {"absent", "garbage", "empty", "scalar"}
    \/ file.kind = "map" /\ "model" \notin DOMAIN file.doc

\* C4: when the file is missing, malformed or lacks the required field, load
\* returns normally and leaves the fully populated default entity.
C4_LoadFallsBackToDefault ==
    (last.op = "load" /\ Unloadable) =>
        /\ last.returned
        /\ configuration = DefaultEntity

C4_Witness ==
    /\ last.op = "load"
    /\ file.kind = "map"
    /\ "model" \notin DOMAIN file.doc
    /\ configuration = DefaultEntity

\* C5: an update that returns has written the entity whatever the statuses:
\* when the write succeeded the file holds the live entity.
C5_UpdatePersistsUnconditionally ==
    (Updating /\ last.returned) =>
        /\ last.saved # "none"
        /\ disk = "ok" => last.saved = "ok"
        /\ last.saved = "ok" =>
              /\ file.kind = "map"
              /\ DOMAIN file.doc = SettingsFields
              /\ \A k \in SettingsFields :
                    YamlConstruct(file.doc[k]) = configuration[k]

\* one field was accepted, another rejected, and the entity was written
C5_Witness ==
    /\ Updating
    /\ last.returned
    /\ last.saved = "ok"
    /\ \E n \in DOMAIN last.response : last.response[n].ok
    /\ \E n \in DOMAIN last.response : ~last.response[n].ok
    /\ configuration # last.prev
    /\ SettingsLoad(file).configuration = configuration

\* C6: with a non-empty list of known models, a model update is accepted iff
\* the value is a string of the list: a member becomes the live model with
\* status (true, value), anything else is reported (false, value) and the
\* live model is unchanged.
C6_ModelGatedByKnownList ==
    (Updating /\ ListGiven /\ (last.returned \/ Len(Args) = 1)) =>
        \A i \in 1..Len(Args) :
            Args[i].name = "model" =>
                IF IsMember(Args[i].value)
                THEN /\ Reported("model", TRUE, Args[i].value)
                     /\ configuration.model = Args[i].value
                ELSE /\ Reported("model", FALSE, Args[i].value)
                     /\ configuration.model = last.prev.model

C6_Witness ==
    /\ Updating
    /\ ListGiven
    /\ \E i \in 1..Len(Args) :
          /\ Args[i].name = "model"
          /\ IsMember(Args[i].value)
          /\ configuration.model = Args[i].value
          /\ last.prev.model # Args[i].value
          /\ Reported("model", TRUE, Args[i].value)

\* C7: with an empty or absent list of known models, a model update is
\* accepted iff the value is a non-empty string; the empty string and values
\* that are no string are rejected and leave the live model unchanged.
C7_ModelNeedsNonEmptyString ==
    (Updating /\ last.returned /\ ~ListGiven) =>
        \A i \in 1..Len(Args) :
            Args[i].name = "model" =>
                IF Args[i].value.t = "str" /\ Args[i].value.s # ""
                THEN /\ Reported("model", TRUE, Args[i].value)
                     /\ configuration.model = Args[i].value
                ELSE /\ Reported("model", FALSE, Args[i].value)
                     /\ configuration.model = last.prev.model

\* the value of an argument is in the domain of the field it names
ValueInDomain(field, value) ==
    IF field = "model"
    THEN /\ value.t = "str"
         /\ value.s # ""
         /\ ListGiven => IsMember(value)
    ELSE /\ validate_numeric(value)
         /\ InDeclaredDomain(field, Attempted(value))

\* the value a field takes from an accepted argument
Effective(field, value) ==
    IF field = "model" THEN value ELSE Attempted(value)

FieldOfName == [n \in NumericAttrs \cup {"model"} |->
                   IF n = "model" THEN "model" ELSE FieldOfAttr[n]]

C9_UnknownNameIgnored ==
    Updating =>
        \A i \in 1..Len(Args) :
            Args[i].name \notin DOMAIN FieldOfName =>
                /\ last.returned
                /\ Args[i].name \notin DOMAIN last.response
                /\ Len(Args) = 1 => configuration = last.prev

\* C10: an update of a numeric field with a raw value that is not numeric is
\* reported (false, original value) and the field keeps its prior value.
C10_NonNumericRejected ==
    Updating =>
        \A i \in 1..Len(Args) :
            (/\ Args[i].name \in NumericAttrs
             /\ ~ReadsAsNumber(Args[i].value))
            => /\ Reported(Args[i].name, FALSE, Args[i].value)
               /\ configuration[FieldOfAttr[Args[i].name]]
                      = last.prev[FieldOfAttr[Args[i].name]]

\* the raw float behind a numeric argument, in thousandths
RawOf(value) == IF value.t = "str" THEN NumericStrings[value.s].n ELSE value.n

\* the hundredths nearest to a number of thousandths (both neighbours of a
\* tie)
Roundings(n) == {m \in (n - 5)..(n + 5) : m % 10 = 0}

\* C11: a numeric value given to a numeric field is rounded to two decimals
\* and the domain test is made on the rounded value: in the domain, the
\* field becomes the rounded value and the status is (true, rounded value);
\* outside, the status is (false, rounded value).
C11_RoundedThenTested ==
    (Updating /\ Len(Args) = 1 /\ Args[1].name \in NumericAttrs
        /\ ReadsAsNumber(Args[1].value) /\ Args[1].value.t # "nan")
    => \E m \in Roundings(RawOf(Args[1].value)) :
          IF InDeclaredDomain(FieldOfAttr[Args[1].name], NumV(m))
          THEN /\ configuration[FieldOfAttr[Args[1].name]] = NumV(m)
               /\ Reported(Args[1].name, TRUE, NumV(m))
          ELSE Reported(Args[1].name, FALSE, NumV(m))

\* 2.004 was given to temperature: outside the domain as given, inside it
\* once rounded, and accepted as 2.0
C11_Witness ==
    /\ Updating
    /\ Args = <<[name |-> "temperature", value |-> StrV("2.004")]>>
    /\ configuration.temperature = NumV(2000)
    /\ Reported("temperature", TRUE, NumV(2000))

\* the margins of every numeric field
MarginsOf(field) == {DeclaredDomain[field][1], DeclaredDomain[field][2]}

\* C12: the domain tests include both margins: an update of a numeric field
\* to exactly its minimum or its maximum is accepted, and the range check
\* of a value is true exactly when the value is a number between the
\* margins, the margins included.
C12_MarginsIncluded ==
    (Updating /\ Len(Args) = 1 /\ Args[1].name \in NumericAttrs)
    => LET field == FieldOfAttr[Args[1].name]
           value == Args[1].value
       IN  /\ (value.t = "num" /\ value.n \in MarginsOf(field))
                 => /\ configuration[field] = value
                    /\ Reported(Args[1].name, TRUE, value)
           /\ \A f \in NumericFields :
                 validate_range(DeclaredDomain[f], value)
                     <=> /\ ReadsAsNumber(value)
                         /\ value.t # "nan"
                         /\ DeclaredDomain[f][1] <= RawOf(value)
                         /\ RawOf(value) <= DeclaredDomain[f][2]

\* top was 0.0 and has been set to exactly its maximum, 1.0
C12_Witness ==
    /\ Updating
    /\ Args = <<[name |-> "top", value |-> NumV(1000)]>>
    /\ last.prev.top_p = NumV(0)
    /\ configuration.top_p = NumV(1000)
    /\ Reported("top", TRUE, NumV(1000))

\* C13: a preset of the Settings manager, from any state, makes the default
\* entity the live one and writes it at once; when the write succeeds the
\* file holds the default entity.
C13_PresetRestoresDefault ==
    last.op = "preset" =>
        /\ configuration = DefaultEntity
        /\ last.saved \in {"ok", "failed"}
        /\ disk = "ok" => last.saved = "ok"
        /\ last.saved = "ok" =>
              SettingsLoad(file) =
                  [successfull |-> TRUE, configuration |-> DefaultEntity]

\* a preset has replaced an entity that was not the default one and has
\* written the file
C13_Witness ==
    /\ last.op = "preset"
    /\ last.prev # DefaultEntity
    /\ last.prev.model = StrV("a")
    /\ last.saved = "ok"

\* the built-in default text of the prompt, character by character
PersonaText == TextV(<<"LF", "p", "LF">>)

\* the Prompt manager has just reset its entity to the default: by preset,
\* or by a load that found no readable file
PromptDefaulted ==
    \/ last.op = "preset"
    \/ last.op = "load" /\ file.kind # "text"

\* C14 as stated: resetting the Prompt entity to its default, by preset or
\* by the fallback of load, yields a Prompt whose text is the empty string.
C14_DefaultPromptEmpty ==
    PromptDefaulted => configuration.text = TextV(<<>>)

\* C14 amended: resetting the Prompt entity to its default, by preset or by
\* the fallback of load, yields the built-in default prompt, a text that is
\* not empty; the empty text is what the reset command sets.
C14_DefaultPromptIsPersona ==
    /\ PromptDefaulted =>
          /\ configuration.text = PersonaText
          /\ configuration.text.s # <<>>
    /\ last.op = "reset" => configuration.text = TextV(<<>>)

\* a preset has replaced the empty text by the default one
C14_Witness ==
    /\ last.op = "preset"
    /\ last.prev.text = TextV(<<>>)
    /\ configuration.text = PersonaText

\* what a further preset of the plug under study would leave
PresetAgain ==
    IF PromptPlugged THEN PromptPlugPreset(file, disk)
    ELSE PlugPreset(file, disk)

\* C15: preset is idempotent for either manager: in the state a preset
\* leaves, a second preset changes neither the live entity nor the content
\* of the file.
C15_PresetIdempotent ==
    last.op = "preset" =>
        /\ PresetAgain.cfg = configuration
        /\ PresetAgain.file = file

\* a preset of the Prompt manager has replaced another text and has
\* written the file
C15_Witness ==
    /\ PromptPlugged
    /\ last.op = "preset"
    /\ last.prev.text = TextV(<<"h">>)
    /\ last.saved = "ok"
    /\ file.kind = "text"

\* what load hands back for the file of the plug under study
Reloaded ==
    IF PromptPlugged THEN PromptLoad(file) ELSE SettingsLoad(file)

\* C16: for every entity reached by update and preset, a successful save
\* followed by a load of the same file yields an entity equal to the saved
\* one, field by field.
C16_SaveLoadRoundTrip ==
    (last.op \in {"update", "reset", "preset"} /\ last.saved = "ok")
    => Reloaded = [successfull |-> TRUE, configuration |-> configuration]

\* C17: in every state reached through load, update with values of any
\* type, preset and the reset command, the text of the Prompt entity is a
\* string, never None.
C17_TextIsString ==
    (PromptPlugged /\ phase = "ready") => configuration.text.t = "str"

\* an update was given None and has left the text, a string, as it was
C17_Witness ==
    /\ PromptPlugged
    /\ last.op = "update"
    /\ Args # <<>>
    /\ Args[1].value = NoText
    /\ last.response = <<FALSE, NoText>>
    /\ configuration.text = last.prev.text
    /\ configuration.text.t = "str"

\* C18: an update of the prompt with any string, the empty one included,
\* succeeds: the live text is the value, the status is (true, value), and
\* the text is written to the file at once (the file holds it when the
\* write succeeds).
C18_StringUpdateSucceeds ==
    (/\ PromptPlugged
     /\ last.op \in {"update", "reset"}
     /\ Args # <<>>
     /\ Args[1].value.t = "str")
    => /\ configuration.text = Args[1].value
       /\ last.response = <<TRUE, Args[1].value>>
       /\ last.saved \in {"ok", "failed"}
       /\ disk = "ok" => last.saved = "ok"
       /\ last.saved = "ok" => file = TextFile(Args[1].value.s)

\* the empty string has replaced a text that was not empty and has been
\* written
C18_Witness ==
    /\ PromptPlugged
    /\ last.op = "update"
    /\ Args # <<>>
    /\ Args[1].value = TextV(<<>>)
    /\ last.prev.text.s # <<>>
    /\ configuration.text = TextV(<<>>)
    /\ file = TextFile(<<>>)
    /\ last.saved = "ok"

\* the answer of the listing in progress
Answer == last.kw

Listing == last.op = "models_list"

\* the answer is 200 with a JSON object whose data is a list of records
WellFormed ==
    /\ Answer.status = "200"
    /\ Answer.body.kind = "object"
    /\ Answer.body.data.kind = "list"
    /\ \A i \in 1..Len(Answer.body.data.items) :
          Answer.body.data.items[i].kind = "record"

\* the provider answered, with another status than 200 or with a body
\* that is not of that structure
Malformed == Answer.status # "none" /\ ~WellFormed

\* C19: the listing returns an empty list, and raises nothing, whenever the
\* provider answers with a status other than 200 or with a malformed body
\* (no data list, data that is no list, items that are no records, a top
\* level that is no key-value record).
C19_MalformedGivesEmptyList ==
    (Listing /\ Malformed) => last.returned /\ last.response = <<>>

\* the records of the answer that are active and have a string as id
RECURSIVE ActiveStringIds(_)
ActiveStringIds(items) ==
    IF items = <<>> THEN <<>>
    ELSE (IF items[1].active = BoolV(TRUE) /\ items[1].id.t = "str"
          THEN <<items[1].id>> ELSE <<>>)
             \o ActiveStringIds(Tail(items))

\* C20: for a well-formed answer the returned list holds exactly the
\* records that are active and whose id is a string; an answer of one
\* inactive record and one active record with id 42 gives the empty list.
C20_ActiveStringIdsListed ==
    (Listing /\ WellFormed) =>
        /\ last.returned
        /\ [i \in 1..Len(last.response) |-> last.response[i].model]
              = ActiveStringIds(Answer.body.data.items)

\* an optional member as the listing should leave it: itself where its
\* check passes, None where it is missing or fails
NulledOrKept(field, before, after) ==
    \/ after = NoneV
    \/ field = "created" /\ before.t = "num" /\ after.t = "str"
    \/ field # "created" /\ after = before

\* C21: an active record with a string id is always kept in the result of
\* the listing: every optional member that is missing or fails its check is
\* set to None, the record is not rejected and nothing is raised; only an
\* invalid id discards a record.
C21_OptionalFieldsNulled ==
    (Listing /\ WellFormed) =>
        /\ last.returned
        /\ \A i \in 1..Len(Answer.body.data.items) :
              LET item == Answer.body.data.items[i]
              IN  (item.active = BoolV(TRUE) /\ item.id.t = "str")
                  => \E j \in 1..Len(last.response) :
                        /\ last.response[j].model = item.id
                        /\ \A f \in {"created", "owned_by", "context_window",
                                      "max_completion_tokens"} :
                              NulledOrKept(f, item[f], last.response[j][f])

\* C26: failures of the persistence are captured, never raised: a load of a
\* file that cannot be read returns, and an update or a preset whose write
\* fails returns as usual (the update with its status mapping) and leaves
\* the live entity with the new values.
C26_PersistenceFailuresCaptured ==
    /\ last.op = "load" => last.returned /\ phase = "ready"
    /\ (SettingsPlugged /\ Updating /\ last.saved = "failed") =>
          /\ last.returned
          /\ DOMAIN last.response \subseteq {Args[i].name : i \in 1..Len(Args)}
          /\ \A n \in DOMAIN last.response :
                last.response[n].ok
                    => configuration[FieldOfName[n]] = last.response[n].value
    /\ (SettingsPlugged /\ last.op = "preset" /\ last.saved = "failed") =>
          last.returned /\ configuration = DefaultEntity
    /\ (PromptPlugged /\ last.op \in {"update", "reset"}
            /\ last.saved = "failed" /\ Args # <<>>) =>
          /\ last.returned
          /\ last.response[2] = Args[1].value
          /\ last.response[1] => configuration.text = Args[1].value
    /\ (PromptPlugged /\ last.op = "preset" /\ last.saved = "failed") =>
          last.returned /\ configuration.text = PersonaText

\* on a disk that denies the write, an update has returned its mapping and
\* the live temperature is the new one while the file is the old one
C26_Witness ==
    /\ SettingsPlugged
    /\ Updating
    /\ disk = "denied"
    /\ last.saved = "failed"
    /\ Reported("temperature", TRUE, NumV(500))
    /\ configuration.temperature = NumV(500)
    /\ last.prev.temperature # NumV(500)
    /\ SettingsLoad(file).configuration # configuration

\* the fields an argument names: by the attribute that stands for the
\* field, or by the field's own name
NamedFields ==
    {FieldOfName[Args[i].name] :
        i \in {j \in 1..Len(Args) : Args[j].name \in DOMAIN FieldOfName}}
        \cup {Args[i].name : i \in 1..Len(Args)}

\* C28: a Settings update changes only the fields named in its input: every
\* field that no argument names keeps its value, whether the named ones
\* are accepted or rejected.
C28_UnnamedFieldsKept ==
    (SettingsPlugged /\ Updating) =>
        \A field \in SettingsFields \ NamedFields :
            configuration[field] = last.prev[field]

\* a rejected temperature next to a top_p that is not its default and has
\* stayed
C28_Witness ==
    /\ SettingsPlugged
    /\ Updating
    /\ Args = <<[name |-> "temperature", value |-> NumV(5000)]>>
    /\ Reported("temperature", FALSE, NumV(5000))
    /\ last.prev.top_p = NumV(500)
    /\ configuration.top_p = NumV(500)

\* the value passes the range check of the field: a number, or a string
\* that spells one, between the margins
PassesRange(field, value) ==
    /\ ReadsAsNumber(value)
    /\ value.t # "nan"
    /\ DeclaredDomain[field][1] <= RawOf(value)
    /\ RawOf(value) <= DeclaredDomain[field][2]

\* C27: the validation of a loaded Settings entity resets every numeric
\* field that fails its range check to the field's default, leaves the
\* numeric fields in range and the model as they are, and returns true
\* exactly when the model is a string; a model that fails its check does
\* not undo the normalization of the numeric fields.
C27_ValidationNormalizes ==
    last.op = "validate" =>
        /\ last.returned
        /\ \A field \in NumericFields :
              configuration[field] =
                  IF PassesRange(field, last.prev[field])
                  THEN last.prev[field] ELSE DefaultEntity[field]
        /\ configuration.model = last.prev.model
        /\ last.response = <<last.prev.model.t = "str">>

\* t is s with the white space at its two ends taken away
IsTrimOf(t, s) ==
    \E i \in 1..(Len(s) + 1) : \E j \in 0..Len(s) :
        /\ t = SubSeq(s, i, j)
        /\ \A k \in 1..Len(s) : (k < i \/ k > j) => s[k] \in WhiteSpace
        /\ t # <<>> => (t[1] \notin WhiteSpace /\ t[Len(t)] \notin WhiteSpace)

\* the handler of session s has called GPTPlug.chat
Chatted(s) ==
    /\ handlers[s].command.cmd = "chat"
    /\ handlers[s].command.text # <<>>
    /\ handlers[s].pc # "run"

\* C22: for every outcome of the provider call the chat call returns: the
\* handler holds (true, the generated text without the white space around
\* it) when the provider gave a text, and (false, none) for every other
\* outcome; it has made a single request and no chat handler has raised.
C22_ChatNeverRaises ==
    \A s \in Sessions :
        Chatted(s) =>
            /\ handlers[s].pc = "reply"
            /\ handlers[s].request # NoRequest
            /\ IF /\ handlers[s].provider.kind = "completion"
                  /\ handlers[s].provider.content.t = "str"
               THEN /\ handlers[s].response[1] = TRUE
                    /\ handlers[s].response[2].t = "str"
                    /\ IsTrimOf(handlers[s].response[2].s,
                                handlers[s].provider.content.s)
               ELSE handlers[s].response = <<FALSE, NoText>>

\* a chat whose provider call failed waits to reply with (false, none)
C22_Witness ==
    \E s \in Sessions :
        /\ Chatted(s)
        /\ handlers[s].pc = "reply"
        /\ handlers[s].provider = ProviderError
        /\ handlers[s].response = <<FALSE, NoText>>

\* the request that carries the entities e (Settings) and p (Prompt) and
\* the query q, field by field
Carries(request, e, p, q) ==
    /\ request.system = p.text
    /\ request.user = q
    /\ request.model = e.model
    /\ request.temperature = e.temperature
    /\ request.frequency_penalty = e.frequency_penalty
    /\ request.presence_penalty = e.presence_penalty
    /\ request.top_p = e.top_p

\* the handler of session t has completed the last update or preset of
\* the entity
CompletedLast(t, entity) ==
    /\ handlers[t].pc = "replied"
    /\ handlers[t].entity = entity
    /\ handlers[t].latest

\* C23: the request of every chat carries the user's query, the model and
\* the four numeric parameters of the live Settings entity and the text of
\* the live Prompt entity, unchanged; these are the values that the most
\* recent completed update or preset of each entity has left.
C23_ChatCarriesLiveEntities ==
    \A s \in Sessions :
        (Chatted(s) /\ handlers[s].pc = "reply") =>
            /\ Carries(handlers[s].request, configuration,
                       promptplug.configuration, handlers[s].command.text)
            /\ \A t \in Sessions :
                  /\ CompletedLast(t, "settings") =>
                        Carries(handlers[s].request, handlers[t].result,
                                promptplug.configuration,
                                handlers[s].command.text)
                  /\ CompletedLast(t, "prompt") =>
                        Carries(handlers[s].request, configuration,
                                handlers[t].result, handlers[s].command.text)

\* a chat after an update of the other session that has changed the
\* temperature to a value that is neither the default nor the loaded one
C23_Witness ==
    \E s, t \in Sessions :
        /\ Chatted(s)
        /\ handlers[s].pc = "reply"
        /\ CompletedLast(t, "settings")
        /\ handlers[s].request.temperature = handlers[t].result.temperature
        /\ handlers[s].request.temperature # StructureDefault.temperature
        /\ handlers[s].request.temperature # PlugLoad(FileSaved).temperature

\* the live entity named by entity
LiveEntity(entity) ==
    IF entity = "settings" THEN configuration ELSE promptplug.configuration

\* the file of the entity holds what a save of the live entity writes, and
\* a load of it gives the live Settings entity back
FileIsLive(entity) ==
    IF entity = "settings"
    THEN /\ file = SettingsSave(configuration, file, "ok").file
         /\ PlugLoad(file) = configuration
    ELSE promptplug.file =
            PromptSave(promptplug.configuration, promptplug.file, "ok").file

\* the handler of session s has ended an update or a preset of the entity
Finished(s, entity) ==
    handlers[s].pc = "replied" /\ handlers[s].entity = entity

\* C24: with two sessions, between the mutation of a command and its
\* persist step the live entity is the one this mutation left and no other
\* handler is between its own mutation and persist step; when the two
\* sessions have finished commands on the same entity and the disk takes
\* the writes, the file holds the live entity, and this is the entity left
\* by the one command whose persist step was the last.
C24_UpdatesSerialized ==
    /\ \A s \in Sessions :
          handlers[s].pc = "save" =>
              /\ LiveEntity(handlers[s].entity) = handlers[s].result
              /\ \A t \in Sessions \ {s} : handlers[t].pc \notin {"run", "save"}
    /\ \A entity \in {"settings", "prompt"} :
          (disk = "ok" /\ \A s \in Sessions : Finished(s, entity)) =>
              /\ FileIsLive(entity)
              /\ \E s \in Sessions :
                    /\ handlers[s].latest
                    /\ handlers[s].result = LiveEntity(entity)
                    /\ \A t \in Sessions \ {s} : ~handlers[t].latest

\* the two sessions have finished updates of the Settings entity, and the
\* second one's value is what the entity and the file hold
C24_Witness ==
    /\ disk = "ok"
    /\ \A s \in Sessions : Finished(s, "settings")
    /\ handlers["s2"].latest
    /\ ~handlers["s1"].latest
    /\ configuration = handlers["s2"].result
    /\ configuration # StructureDefault
    /\ PlugLoad(file) = configuration
    /\ PlugLoad(file) # PlugLoad(FileSaved)

\* C25: every command whose handler has started is eventually answered by
\* a reply, whatever the start-up listing, the later listings and the
\* disk did.
C25_EveryCommandReplies ==
    \A s \in Sessions :
        (handlers[s].pc = "run") ~> (handlers[s].pc = "replied")

\* the handler of session s has run /models list and the provider's
\* answer was a failure: another status than 200 or a malformed body
ListedFailure(s) ==
    /\ handlers[s].command.cmd = "models"
    /\ handlers[s].command.sub = "list"
    /\ handlers[s].pc # "run"
    /\ \/ handlers[s].provider.status # "200"
       \/ handlers[s].provider.body.kind # "object"
       \/ handlers[s].provider.body.data.kind # "list"

\* the handler of session s has run /models set model
SetModel(s) ==
    /\ handlers[s].command.cmd = "models"
    /\ handlers[s].command.sub = "set"
    /\ handlers[s].command.attr = "model"
    /\ handlers[s].pc # "run"

\* C29: a listing that fails hands the empty list to its caller and leaves
\* the cached list as it was; and an update of the model is checked
\* against the identifiers of the cached list: it is answered, and it is
\* accepted iff the cached list is empty or holds the value.
C29_CacheGatesModelUpdate ==
    \A s \in Sessions :
        /\ ListedFailure(s) =>
              /\ handlers[s].pc = "reply"
              /\ handlers[s].response = <<>>
              /\ handlers[s].result = gptplug_models
        /\ SetModel(s) =>
              /\ handlers[s].pc \in {"save", "reply"}
              /\ handlers[s].request = CachedIds
              /\ handlers[s].response.model.ok =
                    (\/ CachedIds.ids = <<>>
                     \/ \E i \in 1..Len(CachedIds.ids) :
                           CachedIds.ids[i] = handlers[s].command.value)

============================================================================
